---- MODULE Spec2Model ----
(***************************************************************************)
(* Model of pyrogram/session/session.py (asyncio Session).                 *)
(*                                                                         *)
(* Every coroutine of the Session is a process whose position is kept in   *)
(* a variable; one action is the code that runs between two suspension     *)
(* points (awaits).  The byte transport, the server and the MTProto codec  *)
(* are the environment: the outcome of connect()/send(), the packets the   *)
(* server sends and whether a packet unpacks are chosen with \E.           *)
(* `await connection.send(payload)` is taken in the same step as the code  *)
(* before it: nothing another task can do while the payload is written     *)
(* depends on the payload being in flight.  An `await` of a task that has  *)
(* already finished is taken as a step of its own.                         *)
(***************************************************************************)
EXTENDS Integers, Sequences, FiniteSets, TLC

\* ---------------------------------------------------------------- bounds
MaxConn == 2
MaxMsgId == 5
MaxQueue == 1
MaxInId == 10
MaxRetriesArg == 1
MaxUpdates == 2
MaxBadCode == 65

\* ------------------------------------------------------ program constants
ACKS_THRESHOLD == 8
MAX_RETRIES == 5
INITIAL_SALT == 0

Callers == {"c1"}
Requesters == {"start", "next_salt"} \cup Callers

\* ------------------------------------------------------------ TL objects
None == [kind |-> "None"]
NoSalt == [valid_until |-> 0, salt |-> -1]
FutureSalt(valid_since, valid_until, salt) == [valid_until |-> valid_until, salt |-> salt]

Salts == {1, 2}
InIds == 1..MaxInId

Pong(m) == [kind |-> "Pong", msg_id |-> m]
BadServerSalt(m, s) == [kind |-> "BadServerSalt", bad_msg_id |-> m, new_server_salt |-> s]
BadMsgNotification(m, code) == [kind |-> "BadMsgNotification", bad_msg_id |-> m, error_code |-> code]
FutureSalts(m, s) == [kind |-> "FutureSalts", req_msg_id |-> m, salts |-> FutureSalt(1, 1, s)]
RpcError(code) == [kind |-> "RpcError", error_code |-> code]
Config == [kind |-> "Config"]
RpcResult(m, r) == [kind |-> "RpcResult", req_msg_id |-> m, result |-> r]
MsgDetailedInfo(a) == [kind |-> "MsgDetailedInfo", answer_msg_id |-> a]
NewSessionCreated == [kind |-> "NewSessionCreated"]
UpdateShort == [kind |-> "UpdateShort"]

Message(id, seq, body) == [msg_id |-> id, seq_no |-> seq, body |-> body]

\* What the receive task can put on recv_queue: a packet that unpacks to
\* its messages, a packet MTProto.unpack rejects, and stop()'s sentinel.
Packet(msgs) == [kind |-> "data", msgs |-> msgs]
BadPacket == [kind |-> "bad", msgs |-> <<>>]
Sentinel == [kind |-> "sentinel", msgs |-> <<>>]

VARIABLES
    connection,             \* self.connection: id of the transport, 0 = None
    transport,              \* per transport id: [st, closes]
    is_cdn,                 \* self.is_cdn
    is_connected,           \* self.is_connected (asyncio.Event)
    current_salt,           \* self.current_salt
    pending_acks,           \* self.pending_acks
    recv_queue,             \* self.recv_queue
    results,                \* self.results: msg_id -> Result
    next_id,                \* msg ids handed out by self.msg_factory
    ping_task,              \* self.ping_task
    ping_task_event,        \* self.ping_task_event
    next_salt_task,         \* self.next_salt_task
    next_salt_task_event,   \* self.next_salt_task_event
    net_worker_task,        \* self.net_worker_task
    recv_task,              \* self.recv_task
    restart_task,           \* the task recv() spawns for restart()
    start_pc,               \* position of start()
    start_err,              \* what start()'s except clause does after stop()
    stop_pc,                \* position of stop()
    stop_from,              \* who awaits stop(): start()'s handler or the application
    app,                    \* the application calling start()/stop()
    calls,                  \* per requester: its _send/send call
    acks_inflight,          \* payload of the msgs_ack the worker is sending
    updates_queue,          \* self.client.updates_queue
    log                     \* observations: acks emitted, bodies dispatched

lifecycle == <<start_pc, start_err, stop_pc, stop_from, app>>
events == <<ping_task_event, next_salt_task_event>>
tasks == <<ping_task, next_salt_task, net_worker_task, recv_task, restart_task>>
inbound == <<pending_acks, acks_inflight, updates_queue, log>>
vars == <<connection, transport, is_cdn, is_connected, current_salt, recv_queue,
          results, next_id, calls, lifecycle, events, tasks, inbound>>

\* ------------------------------------------------------------- helpers
Result == [value |-> None, event |-> FALSE]

\* self.results[msg_id] = Result()
Alloc(res, m) == [k \in DOMAIN res \cup {m} |-> IF k = m THEN Result ELSE res[k]]

\* self.results.pop(msg_id, None)
Pop(res, m) == [k \in DOMAIN res \ {m} |-> res[k]]

IdleCall == [pc |-> "idle", msg_id |-> 0, data |-> "none", salt |-> -1,
             n |-> 0, retries |-> 0, attempts |-> 0, waited |-> FALSE, out |-> None]

TimeoutError == [kind |-> "TimeoutError"]
OSError == [kind |-> "OSError"]
AttributeError == [kind |-> "AttributeError"]
TypeError == [kind |-> "TypeError"]

\* Error.raise_it(result, type(data)): the domain error of an RpcError.
raise_it(result) ==
    [kind |-> IF result.error_code >= 500 THEN "InternalServerError" ELSE "Error",
     error_code |-> result.error_code]

BAD_MSG_CODES == {16, 17, 18, 19, 20, 32, 33, 34, 35, 48, 64}

\* variant of BAD_MSG_DESCRIPTION: "Error code {}".format(code) for every code
ErrorCodeText(code) == [table |-> FALSE, code |-> code]

\* BAD_MSG_DESCRIPTION.get(code, "Error code {}".format(code)): the table's
\* entry starts with the bracketed code, the default does not.
BAD_MSG_DESCRIPTION(code) ==
    IF code \in BAD_MSG_CODES THEN [table |-> TRUE, code |-> code]
    ELSE [table |-> FALSE, code |-> code]

Raise(e) == [tag |-> "raise", v |-> e]
Return(v) == [tag |-> "return", v |-> v]

\* _send, after the wait: what the popped slot value turns into.
SendOutcome(result) ==
    IF result = None THEN Raise(TimeoutError)
    ELSE IF result.kind = "RpcError" THEN Raise(raise_it(result))
    ELSE IF result.kind = "BadMsgNotification"
         THEN Raise([kind |-> "Exception", text |-> BAD_MSG_DESCRIPTION(result.error_code)])
    ELSE Return(result)

\* Outcomes of `await self.connection.send(payload)`: TRUE = written,
\* FALSE = OSError.  A transport that is not open cannot be written to.
CanSend ==
    IF connection # 0 /\ transport[connection].st = "open" THEN {TRUE, FALSE} ELSE {FALSE}

\* self.connection.close()
Close(tr, c) == [tr EXCEPT ![c] = [st |-> "closed", closes |-> @.closes + 1]]

\* The observations are kept only by the specification of the inbound path
\* (on = TRUE); elsewhere the log stays as it is.
\*   last              the last content-related message the server sent
\*   sent              the payloads of the msgs_ack written, in order
\*   dispatched        the inbound msg ids whose body resolved a slot or was
\*                     put on the updates queue; _twice: one of them again
\*   dropped           the last content-related msg id when a packet that
\*                     did not unpack was dropped, 0 when none was
\*   ping_failed       the msg id of the last PingDelayDisconnect whose write
\*                     raised OSError, 0 when none did
NoLog == [on |-> FALSE, last |-> Message(0, 1, None), sent |-> <<>>,
          dispatched |-> {}, dispatched_twice |-> FALSE, dropped |-> 0,
          ping_failed |-> 0]

\* --------------------------------------------------------------- __init__
Init ==
    /\ connection = 0
    /\ transport = [c \in 1..MaxConn |-> [st |-> "unborn", closes |-> 0]]
    /\ is_cdn \in BOOLEAN
    /\ is_connected = FALSE
    /\ current_salt = NoSalt
    /\ pending_acks = {}
    /\ recv_queue = <<>>
    /\ results = <<>>
    /\ next_id = 0
    /\ ping_task = "none"
    /\ ping_task_event = FALSE
    /\ next_salt_task = "none"
    /\ next_salt_task_event = FALSE
    /\ net_worker_task = "none"
    /\ recv_task = "none"
    /\ restart_task = [pc |-> "none", of |-> 0]
    /\ start_pc = "idle"
    /\ start_err = "none"
    /\ stop_pc = "idle"
    /\ stop_from = "none"
    /\ app = [pc |-> "idle"]
    /\ calls = [r \in Requesters |-> IdleCall]
    /\ acks_inflight = {}
    /\ updates_queue = <<>>
    /\ log = NoLog

\* ------------------------------------------------------------------ stop
\* variant of EnterStop: stop() without line 173
EnterStopConnected(from) ==
    /\ is_connected' = is_connected
    /\ ping_task_event' = TRUE
    /\ next_salt_task_event' = TRUE
    /\ stop_pc' = "await_ping"
    /\ stop_from' = from

\* stop() up to its first await (lines 173-179), entered by `from`.
EnterStop(from) ==
    /\ is_connected' = FALSE
    /\ ping_task_event' = TRUE
    /\ next_salt_task_event' = TRUE
    /\ stop_pc' = "await_ping"
    /\ stop_from' = from

\* stop() raises: the exception reaches whoever awaits it.  start() awaits
\* it inside an except clause, so the exception leaves start() as well.
StopRaises ==
    /\ stop_pc' = "idle"
    /\ stop_from' = "none"
    /\ start_pc' = IF stop_from = "start" THEN "raised" ELSE start_pc
    /\ start_err' = start_err
    /\ app' = [app EXCEPT !.pc = "failed"]

\* the application calls stop() on a session it has started
stop ==
    /\ app.pc \in {"started", "stopped"}
    /\ app.pc = "stopped" => Len(recv_queue) < MaxQueue
    /\ stop_pc = "idle"
    /\ app' = [app EXCEPT !.pc = "in_stop"]
    /\ EnterStop("app")
    /\ UNCHANGED <<connection, transport, is_cdn, current_salt, recv_queue, results,
                   next_id, calls, start_pc, start_err, tasks, inbound>>

\* lines 178-179: await self.ping_task
stop_await_ping ==
    /\ stop_pc = "await_ping"
    /\ ping_task \in {"none", "done"}
    /\ stop_pc' = "await_salt"
    /\ UNCHANGED <<connection, transport, is_cdn, is_connected, current_salt, recv_queue,
                   results, next_id, calls, start_pc, start_err, stop_from, app,
                   events, tasks, inbound>>

\* lines 181-182: awaiting a task that ended with an exception raises it
stop_await_failed ==
    /\ stop_pc = "await_salt"
    /\ next_salt_task = "failed"
    /\ StopRaises
    /\ UNCHANGED <<connection, transport, is_cdn, is_connected, current_salt, recv_queue,
                   results, next_id, calls, events, tasks, inbound>>

\* variant of ClearEvents: stop() without lines 184-185
KeepEvents ==
    /\ ping_task_event' = ping_task_event
    /\ next_salt_task_event' = next_salt_task_event

\* lines 184-185: self.ping_task_event.clear(); self.next_salt_task_event.clear()
ClearEvents ==
    /\ ping_task_event' = FALSE
    /\ next_salt_task_event' = FALSE

\* lines 181-189: await self.next_salt_task, clear both events, close the
\* transport, await self.recv_task (None is not awaitable: TypeError)
stop_await_salt ==
    /\ stop_pc = "await_salt"
    /\ next_salt_task \in {"none", "done"}
    /\ ClearEvents
    /\ transport' = Close(transport, connection)
    /\ IF recv_task = "none"
       THEN StopRaises
       ELSE /\ stop_pc' = "await_recv"
            /\ UNCHANGED <<stop_from, start_pc, start_err, app>>
    /\ UNCHANGED <<connection, is_cdn, is_connected, current_salt, recv_queue, results,
                   next_id, calls, tasks, inbound>>

\* lines 189-193: recv_task has ended; enqueue the sentinel, await the worker
stop_await_recv ==
    /\ stop_pc = "await_recv"
    /\ recv_task = "done"
    /\ recv_queue' = Append(recv_queue, Sentinel)
    /\ stop_pc' = "await_worker"
    /\ UNCHANGED <<connection, transport, is_cdn, is_connected, current_salt, results,
                   next_id, calls, start_pc, start_err, stop_from, app, events, tasks,
                   inbound>>

\* variant of ReleaseAll: stop() without lines 195-196
ReleaseNone(res) == res

\* lines 195-196: for i in self.results.values(): i.event.set()
ReleaseAll(res) == [k \in DOMAIN res |-> [res[k] EXCEPT !.event = TRUE]]

\* lines 193-204: the worker has ended; release the slots, call the
\* disconnect handler, return to the caller of stop()
stop_await_worker ==
    /\ stop_pc = "await_worker"
    /\ net_worker_task = "done"
    /\ results' = ReleaseAll(results)
    /\ stop_pc' = "idle"
    /\ stop_from' = "none"
    /\ IF stop_from = "start"
       THEN /\ start_pc' = IF start_err = "retry" THEN "retry" ELSE "raised"
            /\ app' = IF start_err = "retry" THEN app ELSE [app EXCEPT !.pc = "failed"]
       ELSE /\ start_pc' = start_pc
            /\ app' = [app EXCEPT !.pc = "stopped"]
    /\ UNCHANGED <<connection, transport, is_cdn, is_connected, current_salt, recv_queue,
                   next_id, calls, start_err, events, tasks, inbound>>

\* ----------------------------------------------------------------- _send
\* line 369: self.results.pop(msg_id, None) when the write raised OSError
SendFailed(res, m) == Pop(res, m)

\* lines 352-370 with wait_response=True, for requester r whose call record
\* is `base` and with `res` the slots: a msg id from the factory, the slot,
\* the payload packed with `salt`, the write.  ok = FALSE is the OSError
\* branch.
Send(r, res, base, data, salt, ok) ==
    /\ next_id < MaxMsgId
    /\ next_id' = next_id + 1
    /\ results' = IF ok THEN Alloc(res, next_id + 1)
                  ELSE SendFailed(Alloc(res, next_id + 1), next_id + 1)
    /\ calls' = [calls EXCEPT ![r] =
                    IF ok THEN [base EXCEPT !.pc = "wait", !.msg_id = next_id + 1,
                                            !.data = data, !.salt = salt]
                    ELSE base]

\* line 374: the wait ends when the slot's event is set or WAIT_TIMEOUT passes
Resumable(r) == calls[r].pc = "wait" /\ calls[r].msg_id \in DOMAIN results

\* line 378: result = self.results.pop(msg_id).value
Popped(r) == results[calls[r].msg_id].value

\* ----------------------------------------------------------------- start
\* the application calls start(); line 128 constructs the transport
start ==
    /\ app.pc \in {"idle", "stopped"}
    /\ start_pc \in {"idle", "done"}
    /\ connection < MaxConn
    /\ connection' = connection + 1
    /\ transport' = [transport EXCEPT ![connection + 1].st = "new"]
    /\ start_pc' = "connect"
    /\ start_err' = "none"
    /\ app' = [app EXCEPT !.pc = "in_start"]
    /\ UNCHANGED <<is_cdn, is_connected, current_salt, recv_queue, results, next_id,
                   calls, stop_pc, stop_from, events, tasks, inbound>>

\* the except clauses of lines 160-164: stop(), then retry or re-raise
StartFails(how) ==
    /\ EnterStop("start")
    /\ start_pc' = "stopping"
    /\ start_err' = how
    /\ app' = app

\* which except clause catches e: (OSError, TimeoutError, Error) retries
Handler(e) ==
    IF e.kind \in {"OSError", "TimeoutError", "Error", "InternalServerError"}
    THEN "retry" ELSE "raise"

\* line 131 raises OSError
start_connect_fails ==
    /\ start_pc = "connect"
    /\ StartFails("retry")
    /\ UNCHANGED <<connection, transport, is_cdn, current_salt, recv_queue, results,
                   next_id, calls, tasks, inbound>>

\* lines 131-137: connected; spawn worker and receive task, set the initial
\* salt, send Ping(0)
start_connect ==
    /\ start_pc = "connect"
    /\ transport' = [transport EXCEPT ![connection].st = "open"]
    /\ net_worker_task' = "run"
    /\ recv_task' = "run"
    /\ current_salt' = FutureSalt(0, 0, INITIAL_SALT)
    /\ \E ok \in BOOLEAN :
          /\ Send("start", results, IdleCall, "Ping", INITIAL_SALT, ok)
          /\ IF ok
             THEN /\ start_pc' = "ping"
                  /\ UNCHANGED <<start_err, stop_pc, stop_from, app, is_connected, events>>
             ELSE StartFails("retry")
    /\ UNCHANGED <<connection, is_cdn, recv_queue, ping_task, next_salt_task,
                   restart_task, inbound>>

\* _send raised e, or the reply lacks the attribute start() reads from it
StartSendFails(out) ==
    /\ results' = Pop(results, calls["start"].msg_id)
    /\ calls' = [calls EXCEPT !["start"] = IdleCall]
    /\ StartFails(IF out.tag = "raise" THEN Handler(out.v) ELSE "raise")
    /\ UNCHANGED next_id

\* line 137: the Ping's _send ends; line 138 sends GetFutureSalts(1)
start_ping ==
    /\ start_pc = "ping"
    /\ Resumable("start")
    /\ LET out == SendOutcome(Popped("start")) IN
       IF out.tag = "return" /\ out.v.kind = "BadServerSalt"
       THEN /\ current_salt' = FutureSalt(0, 0, out.v.new_server_salt)
            /\ \E ok \in CanSend :
                  /\ Send("start", Pop(results, calls["start"].msg_id), IdleCall,
                          "GetFutureSalts", out.v.new_server_salt, ok)
                  /\ IF ok
                     THEN /\ start_pc' = "salts"
                          /\ UNCHANGED <<start_err, stop_pc, stop_from, app, is_connected, events>>
                     ELSE StartFails("retry")
       ELSE /\ StartSendFails(out)
            /\ UNCHANGED current_salt
    /\ UNCHANGED <<connection, transport, is_cdn, recv_queue, tasks, inbound>>

\* variant of StartDone: start() without line 157
StartDoneNoPing ==
    /\ is_connected' = TRUE
    /\ start_pc' = "done"
    /\ app' = [app EXCEPT !.pc = "started"]
    /\ UNCHANGED <<ping_task, start_err, stop_pc, stop_from, events>>

\* lines 157-168: spawn the ping task, leave the loop, set is_connected
StartDone ==
    /\ ping_task' = "run"
    /\ is_connected' = TRUE
    /\ start_pc' = "done"
    /\ app' = [app EXCEPT !.pc = "started"]
    /\ UNCHANGED <<start_err, stop_pc, stop_from, events>>

\* line 138: the GetFutureSalts _send ends; line 140 spawns the salt task;
\* lines 142-155 send InitConnection unless the session is a CDN one
start_salts ==
    /\ start_pc = "salts"
    /\ Resumable("start")
    /\ LET out == SendOutcome(Popped("start")) IN
       IF out.tag = "return" /\ out.v.kind = "FutureSalts"
       THEN /\ current_salt' = out.v.salts
            /\ next_salt_task' = "wait"
            /\ IF is_cdn
               THEN /\ results' = Pop(results, calls["start"].msg_id)
                    /\ calls' = [calls EXCEPT !["start"] = IdleCall]
                    /\ StartDone
                    /\ UNCHANGED next_id
               ELSE \E ok \in CanSend :
                      /\ Send("start", Pop(results, calls["start"].msg_id), IdleCall,
                              "InitConnection", out.v.salts.salt, ok)
                      /\ IF ok
                         THEN /\ start_pc' = "init"
                              /\ UNCHANGED <<start_err, stop_pc, stop_from, app,
                                             is_connected, events, ping_task>>
                         ELSE /\ StartFails("retry")
                              /\ UNCHANGED ping_task
       ELSE /\ StartSendFails(out)
            /\ UNCHANGED <<current_salt, next_salt_task, ping_task>>
    /\ UNCHANGED <<connection, transport, is_cdn, recv_queue, net_worker_task, recv_task,
                   restart_task, inbound>>

\* lines 143-168: the InitConnection _send ends
start_init ==
    /\ start_pc = "init"
    /\ Resumable("start")
    /\ LET out == SendOutcome(Popped("start")) IN
       IF out.tag = "return"
       THEN /\ results' = Pop(results, calls["start"].msg_id)
            /\ calls' = [calls EXCEPT !["start"] = IdleCall]
            /\ StartDone
            /\ UNCHANGED next_id
       ELSE /\ StartSendFails(out)
            /\ UNCHANGED ping_task
    /\ UNCHANGED <<connection, transport, is_cdn, current_salt, recv_queue, next_salt_task,
                   net_worker_task, recv_task, restart_task, inbound>>

\* lines 127-128 after stop() returned in the handler: the loop's next turn
start_retry ==
    /\ start_pc = "retry"
    /\ connection < MaxConn
    /\ connection' = connection + 1
    /\ transport' = [transport EXCEPT ![connection + 1].st = "new"]
    /\ start_pc' = "connect"
    /\ start_err' = "none"
    /\ UNCHANGED <<is_cdn, is_connected, current_salt, recv_queue, results, next_id,
                   calls, stop_pc, stop_from, app, events, tasks, inbound>>

\* --------------------------------------------------------------- restart
\* lines 206-208: self.stop() and self.start() build two coroutine objects
\* that are never awaited, so neither body runs
restart ==
    /\ restart_task.pc = "spawned"
    /\ restart_task' = [restart_task EXCEPT !.pc = "done"]
    /\ UNCHANGED <<connection, transport, is_cdn, is_connected, current_salt, recv_queue,
                   results, next_id, calls, lifecycle, events, ping_task, next_salt_task,
                   net_worker_task, recv_task, inbound>>

\* ------------------------------------------------------------------ recv
\* observation: the last content-related message of msgs, or `last`
RECURSIVE LastContent(_, _)
LastContent(last, msgs) ==
    IF msgs = <<>> THEN last
    ELSE LastContent(IF Head(msgs).seq_no % 2 # 0 THEN Head(msgs) ELSE last, Tail(msgs))

\* lines 336-347: a packet that is neither None nor 4 bytes long is enqueued
recv(pk) ==
    /\ recv_task = "run"
    /\ transport[connection].st = "open"
    /\ Len(recv_queue) < MaxQueue
    /\ recv_queue' = Append(recv_queue, pk)
    /\ log' = IF log.on THEN [log EXCEPT !.last = LastContent(@, pk.msgs)] ELSE log
    /\ UNCHANGED <<connection, transport, is_cdn, is_connected, current_salt, results,
                   next_id, calls, lifecycle, events, tasks, pending_acks, acks_inflight,
                   updates_queue>>

\* variant of SpawnRestart: line 343 without the test of line 342
SpawnAlways(c) == [pc |-> "spawned", of |-> c]

\* lines 342-343: asyncio.ensure_future(self.restart()) if is_connected is set
SpawnRestart(c) ==
    IF is_connected THEN [pc |-> "spawned", of |-> c] ELSE restart_task

\* lines 338-345: connection.recv() returned None (the transport was closed
\* here or by the peer)
recv_eof ==
    /\ recv_task = "run"
    /\ transport[connection].st \in {"eof", "closed"}
    /\ restart_task' = SpawnRestart(connection)
    /\ recv_task' = "done"
    /\ UNCHANGED <<connection, transport, is_cdn, is_connected, current_salt, recv_queue,
                   results, next_id, calls, lifecycle, events, ping_task, next_salt_task,
                   net_worker_task, inbound>>

\* lines 338-345: the server sent a 4-byte error code; the transport stays open
recv_error_code ==
    /\ recv_task = "run"
    /\ transport[connection].st = "open"
    /\ restart_task' = SpawnRestart(connection)
    /\ recv_task' = "done"
    /\ UNCHANGED <<connection, transport, is_cdn, is_connected, current_salt, recv_queue,
                   results, next_id, calls, lifecycle, events, ping_task, next_salt_task,
                   net_worker_task, inbound>>

\* the peer closes the connection
server_disconnects ==
    /\ connection # 0
    /\ transport[connection].st = "open"
    /\ transport' = [transport EXCEPT ![connection].st = "eof"]
    /\ UNCHANGED <<connection, is_cdn, is_connected, current_salt, recv_queue, results,
                   next_id, calls, lifecycle, events, tasks, inbound>>

\* ------------------------------------------------------------------ ping
\* variant of Swallowed: lines 292-297 without the except clause
Escaped(task, ok) == IF ok THEN task ELSE "failed"

\* lines 292-297: the task after the _send of PingDelayDisconnect; the
\* OSError of a failed write is caught and the loop goes on
Swallowed(task, ok) == task

\* _send with wait_response=False (lines 352-370): no slot is made at line
\* 356, and line 369 pops the msg id of a failed write
FireAndForget(res, m, ok) == IF ok THEN res ELSE SendFailed(res, m)

\* lines 284-296: PING_INTERVAL passed with the event clear; send
\* PingDelayDisconnect fire-and-forget.  _send returns after the write, so
\* the only exception is the OSError of the write.
ping ==
    /\ ping_task = "run"
    /\ ~ping_task_event
    /\ next_id < MaxMsgId
    /\ next_id' = next_id + 1
    /\ \E ok \in CanSend :
          /\ results' = FireAndForget(results, next_id + 1, ok)
          /\ ping_task' = Swallowed(ping_task, ok)
          /\ log' = IF log.on /\ ~ok THEN [log EXCEPT !.ping_failed = next_id + 1] ELSE log
    /\ UNCHANGED <<connection, transport, is_cdn, is_connected, current_salt, recv_queue,
                   calls, lifecycle, events, next_salt_task, net_worker_task, recv_task,
                   restart_task, pending_acks, acks_inflight, updates_queue>>

\* lines 285-289: the cancellation event is set
ping_cancelled ==
    /\ ping_task = "run"
    /\ ping_task_event
    /\ ping_task' = "done"
    /\ UNCHANGED <<connection, transport, is_cdn, is_connected, current_salt, recv_queue,
                   results, next_id, calls, lifecycle, events, next_salt_task,
                   net_worker_task, recv_task, restart_task, inbound>>

\* ------------------------------------------------------------- next_salt
\* lines 317-328: dt passed with the event clear; send GetFutureSalts(1).
\* OSError on the write: close the transport and end.
next_salt ==
    /\ next_salt_task = "wait"
    /\ ~next_salt_task_event
    /\ \E ok \in CanSend :
          /\ Send("next_salt", results, IdleCall, "GetFutureSalts", current_salt.salt, ok)
          /\ next_salt_task' = IF ok THEN "rpc" ELSE "done"
          /\ transport' = IF ok THEN transport ELSE Close(transport, connection)
    /\ UNCHANGED <<connection, is_cdn, is_connected, current_salt, recv_queue, lifecycle,
                   events, ping_task, net_worker_task, recv_task, restart_task, inbound>>

\* lines 318-322: the cancellation event is set
next_salt_cancelled ==
    /\ next_salt_task = "wait"
    /\ next_salt_task_event
    /\ next_salt_task' = "done"
    /\ UNCHANGED <<connection, transport, is_cdn, is_connected, current_salt, recv_queue,
                   results, next_id, calls, lifecycle, events, ping_task,
                   net_worker_task, recv_task, restart_task, inbound>>

\* lines 325-328: the GetFutureSalts _send ends.  FutureSalts: new salt, loop.
\* TimeoutError or Error: close the transport and end.  Anything else leaves
\* the task with an exception (.salts of another object, BadMsgNotification).
next_salt_reply ==
    /\ next_salt_task = "rpc"
    /\ Resumable("next_salt")
    /\ results' = Pop(results, calls["next_salt"].msg_id)
    /\ calls' = [calls EXCEPT !["next_salt"] = IdleCall]
    /\ LET out == SendOutcome(Popped("next_salt")) IN
       IF out.tag = "return"
       THEN /\ current_salt' = IF out.v.kind = "FutureSalts" THEN out.v.salts ELSE current_salt
            /\ next_salt_task' = IF out.v.kind = "FutureSalts" THEN "wait" ELSE "failed"
            /\ UNCHANGED transport
       ELSE /\ next_salt_task' = IF Handler(out.v) = "retry" THEN "done" ELSE "failed"
            /\ transport' = IF Handler(out.v) = "retry" THEN Close(transport, connection)
                            ELSE transport
            /\ UNCHANGED current_salt
    /\ UNCHANGED <<connection, is_cdn, is_connected, recv_queue, next_id, lifecycle, events,
                   ping_task, net_worker_task, recv_task, restart_task, inbound>>

\* ------------------------------------------------------------ net_worker
\* observation: the content-related message msg is dispatched
Dispatched(d, msg) ==
    IF log.on /\ msg.seq_no % 2 # 0
    THEN [seen |-> d.seen \cup {msg.msg_id}, twice |-> d.twice \/ msg.msg_id \in d.seen]
    ELSE d

\* lines 237-241: is the message skipped as one already in pending_acks?
Skipped(acks, msg) == msg.seq_no % 2 # 0 /\ msg.msg_id \in acks

\* variant of AddAck: the odd-seq_no test without line 241
AddNoAck(acks, msg) == acks

\* lines 237-241: pending_acks after the odd-seq_no test
AddAck(acks, msg) == IF msg.seq_no % 2 # 0 THEN acks \cup {msg.msg_id} ELSE acks

\* lines 250-257: the msg id whose slot the body answers, 0 = None
AnswerTo(body) ==
    IF body.kind \in {"BadMsgNotification", "BadServerSalt"} THEN body.bad_msg_id
    ELSE IF body.kind \in {"FutureSalts", "RpcResult"} THEN body.req_msg_id
    ELSE IF body.kind = "Pong" THEN body.msg_id
    ELSE 0

\* line 263: getattr(msg.body, "result", msg.body)
ResultOf(body) == IF "result" \in DOMAIN body THEN body.result ELSE body

\* variant of Resolve: lines 263-264 without the test of line 262
ResolveAlways(res, m, body) ==
    [k \in DOMAIN res \cup {m} |->
        IF k = m THEN [value |-> ResultOf(body), event |-> TRUE] ELSE res[k]]

\* lines 262-264: store the value and set the event when the slot exists
Resolve(res, m, body) ==
    IF m \in DOMAIN res
    THEN [res EXCEPT ![m] = [value |-> ResultOf(body), event |-> TRUE]]
    ELSE res

IsUpdate(body) ==
    body.kind \notin {"BadMsgNotification", "BadServerSalt", "FutureSalts", "RpcResult",
                      "Pong"}

\* lines 237-264: one turn of `for msg in messages`, on
\* st = [acks, res, upd, disp]
ProcessMsg(st, msg) ==
    IF Skipped(st.acks, msg) THEN st
    ELSE IF msg.body.kind \in {"MsgDetailedInfo", "MsgNewDetailedInfo"}
         THEN [st EXCEPT !.acks = AddAck(@, msg) \cup {msg.body.answer_msg_id}]
    ELSE IF msg.body.kind = "NewSessionCreated"
         THEN [st EXCEPT !.acks = AddAck(@, msg)]
    ELSE [acks |-> AddAck(st.acks, msg),
          res |-> Resolve(st.res, AnswerTo(msg.body), msg.body),
          upd |-> IF IsUpdate(msg.body) THEN Append(st.upd, msg.body) ELSE st.upd,
          disp |-> IF IsUpdate(msg.body) \/ AnswerTo(msg.body) \in DOMAIN st.res
                   THEN Dispatched(st.disp, msg) ELSE st.disp]

RECURSIVE ProcessMsgs(_, _)
ProcessMsgs(st, msgs) ==
    IF msgs = <<>> THEN st
    ELSE ProcessMsgs(ProcessMsg(st, Head(msgs)), Tail(msgs))

\* line 266: if len(self.pending_acks) >= self.ACKS_THRESHOLD
AcksDue(acks) == Cardinality(acks) >= ACKS_THRESHOLD

\* variant of Logged: net_worker without the try statement of lines 219-276
Propagated(task) == "failed"

\* lines 275-276: except Exception: log.error(...); the loop goes on
Logged(task) == task

\* lines 214-270: take one packet off the queue.  The sentinel ends the task;
\* a packet unpack rejects is logged and dropped; otherwise the messages are
\* processed and, with enough pending acks, a MsgsAck is packed and written.
net_worker ==
    /\ net_worker_task = "run"
    /\ recv_queue # <<>>
    /\ recv_queue' = Tail(recv_queue)
    /\ LET pk == Head(recv_queue)
           st == ProcessMsgs([acks |-> pending_acks, res |-> results,
                              upd |-> updates_queue,
                              disp |-> [seen |-> log.dispatched,
                                        twice |-> log.dispatched_twice]], pk.msgs)
       IN  IF pk.kind = "sentinel"
           THEN /\ net_worker_task' = "done"
                /\ UNCHANGED <<results, next_id, inbound>>
           ELSE IF pk.kind = "bad"
           THEN /\ net_worker_task' = Logged(net_worker_task)
                /\ log' = IF log.on THEN [log EXCEPT !.dropped = log.last.msg_id] ELSE log
                /\ UNCHANGED <<results, next_id, pending_acks, acks_inflight,
                               updates_queue>>
           ELSE /\ pending_acks' = st.acks
                /\ results' = st.res
                /\ updates_queue' = st.upd
                /\ log' = [log EXCEPT !.dispatched = st.disp.seen,
                                       !.dispatched_twice = st.disp.twice]
                /\ IF AcksDue(st.acks)
                   THEN /\ next_id < MaxMsgId
                        /\ next_id' = next_id + 1
                        /\ acks_inflight' = st.acks
                        /\ net_worker_task' = "acking"
                   ELSE UNCHANGED <<next_id, acks_inflight, net_worker_task>>
    /\ UNCHANGED <<connection, transport, is_cdn, is_connected, current_salt, calls,
                   lifecycle, events, ping_task, next_salt_task, recv_task, restart_task>>

\* variant of AfterAck: pending_acks.clear() outside the try statement
AfterAckClear(acks, ok) == {}

\* lines 271-274: pending_acks after the MsgsAck write: cleared if it was
\* written, kept on OSError
AfterAck(acks, ok) == IF ok THEN {} ELSE acks

\* lines 270-274: the MsgsAck write ends
net_worker_acked ==
    /\ net_worker_task = "acking"
    /\ \E ok \in CanSend :
          /\ pending_acks' = AfterAck(pending_acks, ok)
          /\ log' = IF ok /\ log.on THEN [log EXCEPT !.sent = Append(@, acks_inflight)]
                    ELSE log
    /\ acks_inflight' = {}
    /\ net_worker_task' = "run"
    /\ UNCHANGED <<connection, transport, is_cdn, is_connected, current_salt, recv_queue,
                   results, next_id, calls, lifecycle, events, ping_task, next_salt_task,
                   recv_task, restart_task, updates_queue>>

\* ------------------------------------------------------------------ send
\* line 400: the errors send() retries
Retried(e) == e.kind \in {"OSError", "TimeoutError", "InternalServerError"}

\* variant of AfterError: send() without its except clause
AfterErrorRaise(call, e) ==
    [call EXCEPT !.pc = "raised", !.out = e, !.msg_id = 0, !.data = "none", !.salt = -1]

\* lines 400-410: the call record after _send raised e
AfterError(call, e) ==
    IF Retried(e) /\ call.retries # 0
    THEN [call EXCEPT !.pc = "sleep", !.retries = @ - 1, !.out = e, !.msg_id = 0,
                      !.data = "none", !.salt = -1]
    ELSE [call EXCEPT !.pc = "raised", !.out = e, !.msg_id = 0, !.data = "none",
                      !.salt = -1]

\* a caller calls send(data, retries=n)
send(c, n) ==
    /\ app.pc # "idle"
    /\ calls[c].pc \in {"idle", "returned", "raised"}
    /\ calls' = [calls EXCEPT ![c] = [IdleCall EXCEPT !.pc = "wait_conn", !.n = n,
                                                      !.retries = n]]
    /\ UNCHANGED <<connection, transport, is_cdn, is_connected, current_salt, recv_queue,
                   results, next_id, lifecycle, events, tasks, inbound>>

\* variant of AfterWait: send() without the except clause of lines 395-396
WaitRaises(call, connected) ==
    IF connected THEN [call EXCEPT !.attempts = @ + 1, !.waited = FALSE]
    ELSE [call EXCEPT !.pc = "raised", !.out = TimeoutError, !.attempts = @ + 1,
                      !.waited = TRUE]

\* lines 393-396: the call record after the wait for is_connected; the
\* asyncio.TimeoutError of a wait that ran to WAIT_TIMEOUT is swallowed
AfterWait(call, connected) == [call EXCEPT !.attempts = @ + 1, !.waited = ~connected]

\* lines 393-399: is_connected is set, or WAIT_TIMEOUT passed without it;
\* then _send(data) up to its wait.  Without a salt, pack raises
\* AttributeError after the slot was allocated.
send_attempt(c) ==
    /\ calls[c].pc = "wait_conn"
    /\ LET base == AfterWait(calls[c], is_connected) IN
       IF base.pc # "wait_conn"
       THEN /\ calls' = [calls EXCEPT ![c] = base]
            /\ UNCHANGED <<results, next_id>>
       ELSE IF current_salt = NoSalt
       THEN /\ next_id < MaxMsgId
            /\ next_id' = next_id + 1
            /\ results' = Alloc(results, next_id + 1)
            /\ calls' = [calls EXCEPT ![c] =
                            [base EXCEPT !.pc = "raised", !.out = AttributeError]]
       ELSE \E ok \in CanSend :
               Send(c, results, IF ok THEN base ELSE AfterError(base, OSError),
                    "GetConfig", current_salt.salt, ok)
    /\ UNCHANGED <<connection, transport, is_cdn, is_connected, current_salt, recv_queue,
                   lifecycle, events, tasks, inbound>>

\* lines 372-410: the wait in _send ends; return the result, retry or raise
send_reply(c) ==
    /\ c \in Callers
    /\ Resumable(c)
    /\ results' = Pop(results, calls[c].msg_id)
    /\ LET out == SendOutcome(Popped(c)) IN
       calls' = [calls EXCEPT ![c] =
                    IF out.tag = "return"
                    THEN [@ EXCEPT !.pc = "returned", !.out = out.v, !.msg_id = 0,
                                   !.data = "none", !.salt = -1]
                    ELSE AfterError(@, out.v)]
    /\ UNCHANGED <<connection, transport, is_cdn, is_connected, current_salt, recv_queue,
                   next_id, lifecycle, events, tasks, inbound>>

\* lines 409-410: the 0.5 s sleep is over; send(data, retries - 1)
send_retry(c) ==
    /\ calls[c].pc = "sleep"
    /\ calls' = [calls EXCEPT ![c].pc = "wait_conn"]
    /\ UNCHANGED <<connection, transport, is_cdn, is_connected, current_salt, recv_queue,
                   results, next_id, lifecycle, events, tasks, inbound>>

\* ---------------------------------------------------------------- server
\* the replies the server can give to the request of a waiting _send
Replies(call) ==
    LET m == call.msg_id IN
    IF call.data = "Ping"
    THEN {BadServerSalt(m, s) : s \in Salts}
    ELSE IF call.data = "GetFutureSalts"
    THEN {FutureSalts(m, s) : s \in Salts} \cup {BadMsgNotification(m, 16)}
    ELSE IF call.data = "InitConnection"
    THEN {RpcResult(m, Config), RpcResult(m, RpcError(500))}
    ELSE {RpcResult(m, Config), RpcResult(m, RpcError(500)), RpcResult(m, RpcError(400)),
          BadMsgNotification(m, 16), BadMsgNotification(m, 0)} \cup
         {BadServerSalt(m, s) : s \in Salts}

\* content-related bodies travel with an odd seq_no
SeqNo(body) == IF body.kind \in {"RpcResult", "UpdateShort", "NewSessionCreated"} THEN 1 ELSE 0

\* packets answering the requests in flight, one message each; the reply to
\* request m carries the server's msg id m
ReplyPackets ==
    {Packet(<<Message(b.id, SeqNo(b.body), b.body)>>) :
        b \in UNION {{[id |-> calls[r].msg_id, body |-> x] : x \in Replies(calls[r])} :
                        r \in {q \in Requesters : calls[q].pc = "wait"}}}

\* ------------------------------------------------------- specifications
\* The session's life: the application starts and stops it, the server
\* answers the requests of start() and of the salt task or drops the
\* connection.
Next ==
    \/ start
    \/ start_connect_fails
    \/ start_connect
    \/ start_ping
    \/ start_salts
    \/ start_init
    \/ start_retry
    \/ stop
    \/ stop_await_ping
    \/ stop_await_failed
    \/ stop_await_salt
    \/ stop_await_recv
    \/ stop_await_worker
    \/ restart
    \/ \E pk \in ReplyPackets : recv(pk)
    \/ recv_eof
    \/ recv_error_code
    \/ server_disconnects
    \/ ping
    \/ ping_cancelled
    \/ next_salt
    \/ next_salt_cancelled
    \/ next_salt_reply
    \/ net_worker

Spec == Init /\ [][Next]_vars

\* The state start() leaves behind on its first, successful attempt of a
\* session that is not a CDN one: msg ids 1-3 were used by Ping,
\* GetFutureSalts and InitConnection, whose rpc_result awaits its ack.
StartedRest ==
    /\ connection = 1
    /\ transport = [c \in 1..MaxConn |->
                       IF c = 1 THEN [st |-> "open", closes |-> 0]
                       ELSE [st |-> "unborn", closes |-> 0]]
    /\ is_cdn = FALSE
    /\ pending_acks = {3}
    /\ recv_queue = <<>>
    /\ ping_task = "run"
    /\ ping_task_event = FALSE
    /\ next_salt_task = "wait"
    /\ next_salt_task_event = FALSE
    /\ net_worker_task = "run"
    /\ recv_task = "run"
    /\ restart_task = [pc |-> "none", of |-> 0]
    /\ start_pc = "done"
    /\ start_err = "none"
    /\ stop_pc = "idle"
    /\ stop_from = "none"
    /\ app = [pc |-> "started"]
    /\ acks_inflight = {}
    /\ updates_queue = <<>>

Started ==
    /\ is_connected = TRUE
    /\ current_salt \in {FutureSalt(1, 1, s) : s \in Salts}
    /\ results = <<>>
    /\ next_id = 3
    /\ calls = [r \in Requesters |-> IdleCall]
    /\ StartedRest

\* Callers of send() on a started session: the server answers, answers with
\* an error, or does not answer; a write may fail.
InitSend == Started /\ log = NoLog

NextSend ==
    \/ \E c \in Callers, n \in 0..MaxRetriesArg : send(c, n)
    \/ \E c \in Callers : send_attempt(c)
    \/ \E c \in Callers : send_reply(c)
    \/ \E c \in Callers : send_retry(c)
    \/ \E pk \in ReplyPackets : recv(pk)
    \/ net_worker

SpecSend == InitSend /\ [][NextSend]_vars

\* A caller of send() on a started session that the application stops or
\* the server drops.
InitStop == Started /\ log = NoLog

NextStop ==
    \/ \E c \in Callers : send(c, 0)
    \/ \E c \in Callers : send_attempt(c)
    \/ \E c \in Callers : send_reply(c)
    \/ \E pk \in ReplyPackets : recv(pk)
    \/ net_worker
    \/ stop
    \/ stop_await_ping
    \/ stop_await_salt
    \/ stop_await_recv
    \/ stop_await_worker
    \/ restart
    \/ recv_eof
    \/ server_disconnects
    \/ ping_cancelled
    \/ next_salt_cancelled

SpecStop == InitStop /\ [][NextStop]_vars

\* The inbound path of a started session with one request (msg id 4) in
\* flight: the server sends single messages and containers of two.
\* Content-related messages take the server's msg ids in increasing order,
\* or repeat the last one.
InitWorker ==
    /\ log = [NoLog EXCEPT !.on = TRUE, !.last = Message(3, 1, RpcResult(3, Config))]
    /\ is_connected = TRUE
    /\ current_salt = FutureSalt(1, 1, 1)
    /\ next_id = 4
    /\ results = Alloc(<<>>, 4)
    /\ calls = [r \in Requesters |->
                  IF r \in Callers
                  THEN [IdleCall EXCEPT !.pc = "wait", !.msg_id = 4, !.data = "GetConfig",
                                        !.salt = 1, !.attempts = 1]
                  ELSE IdleCall]
    /\ StartedRest

\* content-related bodies
ContentBodies ==
    {NewSessionCreated} \cup
    (IF Len(updates_queue) < MaxUpdates THEN {UpdateShort} ELSE {}) \cup
    {RpcResult(m, Config) : m \in DOMAIN results}

\* the messages the server can send when k is the last msg id it used: the
\* next content-related message, the last one once more, the service message
\* announcing the next one
Content(k) == {Message(k + 1, 1, b) : b \in ContentBodies}
Repeated == IF Len(updates_queue) < MaxUpdates \/ log.last.body # UpdateShort
            THEN {log.last} ELSE {}
Service(k) == {Message(k + 1, 0, MsgDetailedInfo(k + 1))}

WorkerPackets ==
    LET k == log.last.msg_id
        one == IF k < MaxInId THEN Content(k) \cup Service(k) \cup Repeated
               ELSE Repeated
        two == IF k + 1 < MaxInId
               THEN {<<x, y>> : x \in Content(k), y \in Content(k + 1)} \cup
                    {<<x, y>> : x \in Service(k), y \in Content(k)}
               ELSE {}
    IN  {Packet(<<x>>) : x \in one} \cup {Packet(p) : p \in two}

NextWorker ==
    \/ \E pk \in WorkerPackets : recv(pk)
    \/ net_worker
    \/ net_worker_acked
    \/ \E c \in Callers : send_reply(c)

SpecWorker == InitWorker /\ [][NextWorker]_vars

\* A caller of send() while the application's first start() is under way:
\* send() goes on to _send when WAIT_TIMEOUT passes without is_connected.
NextEarly ==
    \/ start
    \/ start_connect
    \/ start_ping
    \/ start_salts
    \/ start_init
    \/ \E c \in Callers : send(c, 0)
    \/ \E c \in Callers : send_attempt(c)
    \/ \E c \in Callers : send_reply(c)
    \/ \E pk \in ReplyPackets : recv(pk)
    \/ net_worker

SpecEarly == Init /\ [][NextEarly]_vars

\* The ping task of a started session that the application stops or the
\* server drops, next to the salt task.
InitPing == Started /\ log = [NoLog EXCEPT !.on = TRUE]

NextPing ==
    \/ ping
    \/ ping_cancelled
    \/ next_salt
    \/ next_salt_cancelled
    \/ next_salt_reply
    \/ \E pk \in ReplyPackets : recv(pk)
    \/ net_worker
    \/ recv_eof
    \/ server_disconnects
    \/ restart
    \/ stop
    \/ stop_await_ping
    \/ stop_await_failed
    \/ stop_await_salt
    \/ stop_await_recv
    \/ stop_await_worker

SpecPing == InitPing /\ [][NextPing]_vars

\* A CDN session after one start() and one stop(): msg ids 1-2 were used by
\* Ping and GetFutureSalts, every task has ended, the transport is closed.
\* The application stops it again or starts it again while a caller uses
\* send().
InitAgain ==
    /\ connection = 1
    /\ transport = [c \in 1..MaxConn |->
                       IF c = 1 THEN [st |-> "closed", closes |-> 1]
                       ELSE [st |-> "unborn", closes |-> 0]]
    /\ is_cdn = TRUE
    /\ is_connected = FALSE
    /\ current_salt \in {FutureSalt(1, 1, s) : s \in Salts}
    /\ pending_acks = {}
    /\ recv_queue = <<>>
    /\ results = <<>>
    /\ next_id = 2
    /\ ping_task = "done"
    /\ ping_task_event = FALSE
    /\ next_salt_task = "done"
    /\ next_salt_task_event = FALSE
    /\ net_worker_task = "done"
    /\ recv_task = "done"
    /\ restart_task = [pc |-> "none", of |-> 0]
    /\ start_pc = "done"
    /\ start_err = "none"
    /\ stop_pc = "idle"
    /\ stop_from = "none"
    /\ app = [pc |-> "stopped"]
    /\ calls = [r \in Requesters |-> IdleCall]
    /\ acks_inflight = {}
    /\ updates_queue = <<>>
    /\ log = NoLog

NextAgain ==
    \/ stop
    \/ stop_await_ping
    \/ stop_await_salt
    \/ stop_await_recv
    \/ stop_await_worker
    \/ start
    \/ start_connect_fails
    \/ start_connect
    \/ start_ping
    \/ start_salts
    \/ ping_cancelled
    \/ next_salt_cancelled
    \/ \E c \in Callers : send(c, 0)
    \/ \E c \in Callers : send_attempt(c)
    \/ \E c \in Callers : send_reply(c)
    \/ \E pk \in ReplyPackets : recv(pk)
    \/ recv_eof
    \/ net_worker

SpecAgain == InitAgain /\ [][NextAgain]_vars

\* Callers of send(), with retries, on a started session that the
\* application stops, up to the close of the transport: attempts are made
\* with is_connected set and clear, on an open and on a closed transport.
InitWait == Started /\ log = NoLog

NextWait ==
    \/ \E c \in Callers, n \in 0..MaxRetriesArg : send(c, n)
    \/ \E c \in Callers : send_attempt(c)
    \/ \E c \in Callers : send_reply(c)
    \/ \E c \in Callers : send_retry(c)
    \/ \E pk \in ReplyPackets : recv(pk)
    \/ net_worker
    \/ stop
    \/ stop_await_ping
    \/ stop_await_salt
    \/ ping_cancelled
    \/ next_salt_cancelled

SpecWait == InitWait /\ [][NextWait]_vars

\* The inbound path when packets may fail to unpack: single content-related
\* messages with increasing msg ids, and packets MTProto.unpack rejects.
UnpackPackets ==
    {BadPacket} \cup
    (IF log.last.msg_id < MaxInId THEN {Packet(<<x>>) : x \in Content(log.last.msg_id)}
     ELSE {})

NextUnpack ==
    \/ \E pk \in UnpackPackets : recv(pk)
    \/ net_worker
    \/ net_worker_acked
    \/ \E c \in Callers : send_reply(c)

SpecUnpack == InitWorker /\ [][NextUnpack]_vars

\* _send's handling of the slot value (lines 378-390) as a function: a
\* request with msg id 4 waits on a started session and its slot holds any
\* value a reply can have stored, or None.
SlotValues ==
    {None, Config, Pong(4)} \cup
    {BadServerSalt(4, s) : s \in Salts} \cup
    {FutureSalts(4, s) : s \in Salts} \cup
    {RpcError(code) : code \in {303, 400, 401, 420, 500, 503}} \cup
    {BadMsgNotification(4, code) : code \in 0..MaxBadCode}

InitOutcome ==
    /\ log = NoLog
    /\ is_connected = TRUE
    /\ current_salt = FutureSalt(1, 1, 1)
    /\ next_id = 4
    /\ \E v \in SlotValues : results = 4 :> [value |-> v, event |-> v # None]
    /\ calls = [r \in Requesters |->
                  IF r \in Callers
                  THEN [IdleCall EXCEPT !.pc = "wait", !.msg_id = 4, !.data = "GetConfig",
                                        !.salt = 1, !.attempts = 1]
                  ELSE IdleCall]
    /\ StartedRest

NextOutcome == \E c \in Callers : send_reply(c)

SpecOutcome == InitOutcome /\ [][NextOutcome]_vars

\* ------------------------------------------------------------ properties
\* C1: the restart() the receive task spawns runs stop() and then start():
\* once that task has ended, the transport it was spawned for has been
\* closed by stop() and start() has made a new one.
C1_RestartRuns ==
    restart_task.pc = "done" =>
        /\ transport[restart_task.of].st = "closed"
        /\ connection # restart_task.of

\* C2: the step in which stop() completes leaves every slot of self.results
\* with its event set; and a caller whose wait ends on a slot without a
\* stored response raises TimeoutError.
C2_StopReleases ==
    [][/\ (stop_pc = "await_worker" /\ stop_pc' = "idle") =>
             \A m \in DOMAIN results : m \in DOMAIN results' /\ results'[m].event
       /\ \A c \in Callers :
             (calls[c].pc = "wait" /\ calls'[c].pc # "wait" /\
              results[calls[c].msg_id].value = None)
             => (calls'[c].pc = "raised" /\ calls'[c].out = TimeoutError)]_vars

\* stop() has just completed while a caller waits on a slot that nothing
\* answered: the slot's event is set and its value is None
C2_Witness ==
    /\ app.pc = "stopped"
    /\ \E c \in Callers :
          /\ calls[c].pc = "wait"
          /\ calls[c].msg_id \in DOMAIN results
          /\ results[calls[c].msg_id] = [value |-> None, event |-> TRUE]

\* the lifecycle operations in progress: start() between its call and its
\* return, a stop() called by the application, a restart() task spawned
\* by the receive task that has not ended
StartRuns == start_pc \notin {"idle", "done", "raised"}
StopRuns == stop_pc # "idle" /\ stop_from = "app"
RestartRuns == restart_task.pc = "spawned"

\* C3: no two of start, stop, restart are in progress at the same moment.
C3_OneAtATime ==
    /\ ~(StartRuns /\ StopRuns)
    /\ ~(StartRuns /\ RestartRuns)
    /\ ~(StopRuns /\ RestartRuns)

\* C4: start() does not raise when the failure was one its first except
\* clause catches (OSError, TimeoutError, Error): the stop() it awaits
\* returns and the loop goes on.
C4_StartRetries == start_pc = "raised" => start_err # "retry"

\* C5: send(data, retries=n) calls _send at most n+1 times, one call per
\* retry spent; it sleeps and retries only after OSError, TimeoutError or
\* InternalServerError and only with retries left; it raises one of those
\* only with no retries left.
C5_RetryBudget ==
    \A c \in Callers :
        LET k == calls[c]
            retried == {"OSError", "TimeoutError", "InternalServerError"}
        IN  /\ k.attempts <= k.n + 1
            /\ k.pc \in {"wait", "returned", "raised"} => k.attempts = k.n - k.retries + 1
            /\ k.pc = "sleep" => /\ k.attempts = k.n - k.retries
                                 /\ k.out.kind \in retried
            /\ (k.pc = "raised" /\ k.out.kind \in retried) => k.retries = 0
            /\ k.pc = "returned" => k.out.kind \notin retried \cup {"Error", "Exception"}

\* a call with one retry has spent it and raised the second error
C5_Witness ==
    \E c \in Callers :
        /\ calls[c].pc = "raised"
        /\ calls[c].n = 1
        /\ calls[c].attempts = 2
        /\ calls[c].out.kind = "InternalServerError"

\* the msg ids that are in more than one msgs_ack written
AckedTwice ==
    {m \in InIds : \E i, j \in 1..Len(log.sent) : i < j /\ m \in log.sent[i] \cap log.sent[j]}

\* C6: an inbound msg id is in at most one msgs_ack, and its body resolves a
\* slot or goes to the updates queue at most once.
C6_AtMostOnce == AckedTwice = {} /\ ~log.dispatched_twice

\* the packet the worker takes in this step, if it takes one
WorkerTakes == net_worker_task = "run" /\ recv_queue # <<>> /\ recv_queue' = Tail(recv_queue)

\* C7: when the worker processes an RpcResult whose req_msg_id has a slot,
\* the slot holds the result and its event is set afterwards.
C7_ResultResolves ==
    [][WorkerTakes =>
         \A i \in 1..Len(Head(recv_queue).msgs) :
            LET b == Head(recv_queue).msgs[i].body IN
            (b.kind = "RpcResult" /\ b.req_msg_id \in DOMAIN results)
            => results'[b.req_msg_id] = [value |-> b.result, event |-> TRUE]]_vars

\* C8: a caller that was answered bad_server_salt with new_server_salt S'
\* finds current_salt.salt = S'.
C8_SaltReplaced ==
    \A c \in Callers :
        (calls[c].pc = "returned" /\ calls[c].out.kind = "BadServerSalt")
        => current_salt.salt = calls[c].out.new_server_salt

\* C9: a packet that leaves 8 or more pending acks starts one msgs_ack with
\* pending_acks as its payload, and a packet that leaves fewer starts none;
\* when the write ends, pending_acks is empty and the payload written, or
\* pending_acks is as it was and nothing was written.
C9_AckFlush ==
    [][/\ (WorkerTakes /\ Head(recv_queue).kind = "data") =>
             IF Cardinality(pending_acks') >= 8
             THEN net_worker_task' = "acking" /\ acks_inflight' = pending_acks'
             ELSE net_worker_task' = "run" /\ acks_inflight' = {}
       /\ (net_worker_task = "acking" /\ net_worker_task' # "acking") =>
             \/ pending_acks' = {} /\ log'.sent = Append(log.sent, pending_acks)
             \/ pending_acks' = pending_acks /\ log'.sent = log.sent]_vars

\* a msgs_ack of 8 ids was written and pending_acks is empty
C9_Witness ==
    /\ Len(log.sent) = 1
    /\ Cardinality(log.sent[1]) >= 8
    /\ pending_acks = {}
    /\ net_worker_task = "run"

\* C10: the msg id of every odd-seq_no message the worker processes is in
\* pending_acks afterwards, and an id leaves pending_acks only in the step
\* that ends the write of a msgs_ack holding it.
C10_AckedAtLeastOnce ==
    [][/\ (WorkerTakes /\ Head(recv_queue).kind = "data") =>
             \A i \in 1..Len(Head(recv_queue).msgs) :
                Head(recv_queue).msgs[i].seq_no % 2 # 0
                => Head(recv_queue).msgs[i].msg_id \in pending_acks'
       /\ \A m \in pending_acks \ pending_acks' :
             /\ Len(log'.sent) = Len(log.sent) + 1
             /\ m \in log'.sent[Len(log'.sent)]]_vars

\* a write of the msgs_ack failed: the 8 ids are still pending
C10_Witness ==
    /\ log.sent = <<>>
    /\ Cardinality(pending_acks) >= 8
    /\ net_worker_task = "run"
    /\ acks_inflight = {}
    /\ recv_queue = <<>>

\* C11: close() is called at most once on any one transport.
C11_ClosedOnce == \A c \in 1..MaxConn : transport[c].closes <= 1

\* C12: the keys of self.results are exactly the msg ids of the _send calls
\* that wait for a response.
C12_SlotIffWaiting ==
    DOMAIN results = {calls[r].msg_id : r \in {q \in Requesters : calls[q].pc = "wait"}}

\* C13: is_connected is set only by the last step of a successful attempt
\* of start(): the step ends the wait for GetFutureSalts (CDN) or for
\* InitConnection (not CDN) with a result and spawns the ping task; the
\* worker and the receive task were spawned in the step that sent the Ping,
\* the salt task in the step that replaced current_salt by the salt of
\* GetFutureSalts, after the salt of the Ping's reply had replaced
\* INITIAL_SALT.
C13_ConnectedLast ==
    [][/\ (~is_connected /\ is_connected') =>
             /\ start_pc = (IF is_cdn THEN "salts" ELSE "init")
             /\ calls["start"].data = (IF is_cdn THEN "GetFutureSalts" ELSE "InitConnection")
             /\ results[calls["start"].msg_id].value # None
             /\ start_pc' = "done"
             /\ ping_task # "run" /\ ping_task' = "run"
             /\ next_salt_task' # "none"
             /\ net_worker_task # "none" /\ recv_task # "none"
             /\ current_salt'.valid_until # 0
             /\ current_salt'.salt # INITIAL_SALT
       /\ (start_pc = "connect" /\ start_pc' = "ping") =>
             /\ net_worker_task' = "run" /\ recv_task' = "run"
             /\ current_salt' = FutureSalt(0, 0, INITIAL_SALT)
             /\ calls'["start"].data = "Ping"
       /\ (start_pc = "ping" /\ start_pc' = "salts") =>
             /\ current_salt' = FutureSalt(0, 0, results[calls["start"].msg_id].value.new_server_salt)
             /\ calls'["start"].data = "GetFutureSalts"
             /\ next_salt_task' = next_salt_task
       /\ (start_pc = "salts" /\ start_pc' \in {"init", "done"}) =>
             /\ current_salt' = results[calls["start"].msg_id].value.salts
             /\ next_salt_task' = "wait"
             /\ start_pc' = "init" <=> ~is_cdn
       /\ (start_pc \notin {"salts", "init"} /\ start_pc' = "init") => FALSE
       /\ (start_pc \notin {"salts", "init", "done"} /\ start_pc' = "done") => FALSE]_vars

\* the second attempt of a start() succeeded on a session that is not a CDN
\* one
C13_Witness ==
    /\ is_connected
    /\ ~is_cdn
    /\ connection = 2
    /\ start_pc = "done"
    /\ ping_task = "run"

\* C14: what _send does is fixed by the value popped from the slot: None
\* raises TimeoutError; an RpcError raises the error Error.raise_it maps it
\* to; a BadMsgNotification raises an exception whose text is the table's
\* entry for codes 16-20, 32-35, 48, 64 and "Error code N" otherwise; any
\* other value is returned as it is.
C14_Outcome ==
    [][\A c \in Callers :
          (calls[c].pc = "wait" /\ calls'[c].pc # "wait") =>
             LET v == results[calls[c].msg_id].value
                 k == calls'[c]
             IN  IF v = None THEN k.pc = "raised" /\ k.out = [kind |-> "TimeoutError"]
                 ELSE IF v.kind = "RpcError"
                      THEN /\ k.pc = "raised"
                           /\ k.out.kind \in {"Error", "InternalServerError"}
                           /\ k.out.error_code = v.error_code
                 ELSE IF v.kind = "BadMsgNotification"
                      THEN /\ k.pc = "raised"
                           /\ k.out.kind = "Exception"
                           /\ k.out.text.code = v.error_code
                           /\ k.out.text.table <=>
                                 v.error_code \in {16, 17, 18, 19, 20, 32, 33, 34, 35, 48, 64}
                 ELSE k.pc = "returned" /\ k.out = v]_vars

\* _send raised the table's text for error code 64
C14_Witness ==
    \E c \in Callers :
        /\ calls[c].pc = "raised"
        /\ calls[c].out = [kind |-> "Exception", text |-> [table |-> TRUE, code |-> 64]]

\* C15: a stop() the application calls on a session that start() has fully
\* started returns (it does not end by raising).
C15_StopReturns == ~(app.pc = "failed" /\ start_pc = "done")

\* the msg ids that the bodies of packet pk answer
Answered(pk) ==
    {pk.msgs[i].body.req_msg_id :
        i \in {j \in 1..Len(pk.msgs) : pk.msgs[j].body.kind = "RpcResult"}}

\* C16: a packet the worker processes creates no slot and removes none,
\* changes only slots that one of its bodies answers, and leaves the worker
\* running; the messages that follow a response without a slot are processed
\* (their msg ids are pending acks afterwards).
C16_NoSlotNoOp ==
    [][(WorkerTakes /\ Head(recv_queue).kind = "data") =>
          /\ DOMAIN results' = DOMAIN results
          /\ \A m \in DOMAIN results : m \notin Answered(Head(recv_queue)) => results'[m] = results[m]
          /\ net_worker_task' \in {"run", "acking"}
          /\ \A i \in 1..Len(Head(recv_queue).msgs) :
                Head(recv_queue).msgs[i].seq_no % 2 # 0
                => Head(recv_queue).msgs[i].msg_id \in pending_acks']_vars

\* the caller timed out and the worker then processed the rpc_result of
\* its request: no slot exists
C16_Witness ==
    /\ \E c \in Callers : calls[c].pc = "raised" /\ calls[c].out = TimeoutError
    /\ log.last = Message(4, 1, RpcResult(4, Config))
    /\ pending_acks = {3, 4}
    /\ recv_queue = <<>>
    /\ results = <<>>
    /\ net_worker_task = "run"

\* C17: a packet that does not unpack is dropped: pending_acks, the slots,
\* current_salt and the updates queue stay as they are, the worker goes on
\* running, and no caller's call changes.
C17_BadPacketDropped ==
    [][(WorkerTakes /\ Head(recv_queue).kind = "bad") =>
          /\ pending_acks' = pending_acks
          /\ results' = results
          /\ current_salt' = current_salt
          /\ updates_queue' = updates_queue
          /\ calls' = calls
          /\ net_worker_task' = "run"]_vars

\* a packet was dropped before any other arrived; the worker has since
\* processed an update and the rpc_result of the waiting request, which the
\* caller got
C17_Witness ==
    /\ log.dropped = 3
    /\ net_worker_task = "run"
    /\ updates_queue = <<UpdateShort>>
    /\ \E c \in Callers : calls[c].pc = "returned" /\ calls[c].out = Config

\* C18: when the salt task's GetFutureSalts ends, either the reply is a
\* FutureSalts, current_salt becomes its salt and the task loops; or
\* current_salt is unchanged, the transport is closed and the task has
\* ended without an exception.
C18_SaltTask ==
    [][(next_salt_task = "rpc" /\ next_salt_task' # "rpc") =>
          LET v == results[calls["next_salt"].msg_id].value IN
          IF v.kind = "FutureSalts"
          THEN current_salt' = v.salts /\ next_salt_task' = "wait"
          ELSE /\ current_salt' = current_salt
               /\ transport'[connection].st = "closed"
               /\ next_salt_task' = "done"]_vars

C20_PingEnds ==
    [][/\ (ping_task = "run" /\ ping_task' # "run")
            => (ping_task_event /\ ping_task' = "done")
       /\ (log'.ping_failed # log.ping_failed)
            => (ping_task' = "run" /\ results' = results)
       /\ \A m \in DOMAIN results' \ DOMAIN results :
              \E r \in Requesters : calls'[r].pc = "wait" /\ calls'[r].msg_id = m]_vars

\* the write of the first PingDelayDisconnect (msg id 4) raised OSError on an
\* open transport, and the task still runs
C20_Witness ==
    /\ log.ping_failed = 4
    /\ next_id = 4
    /\ ping_task = "run"
    /\ ~ping_task_event
    /\ results = <<>>
    /\ transport[connection].st = "open"

\* C21: in the step of start() that spawns the worker and the receive task
\* (the transport has just connected), the inbound queue holds no sentinel.
C21_NoStaleSentinel ==
    [][(start_pc = "connect" /\ transport[connection].st = "new"
            /\ transport'[connection].st = "open" /\ net_worker_task' = "run")
        => \A i \in 1..Len(recv_queue') : recv_queue'[i] # Sentinel]_vars

\* C22: while stop() is under way is_connected is clear, and no step taken
\* then spawns restart(); in particular the receive task that ends while
\* stop() awaits it, on the EOF of the transport stop() closed, leaves
\* restart_task as it was.
C22_StopNoRestart ==
    [][/\ stop_pc' # "idle" => ~is_connected'
       /\ stop_pc # "idle" =>
             (restart_task'.pc = "spawned" => restart_task' = restart_task)
       /\ (stop_pc = "await_recv" /\ recv_task = "run" /\ recv_task' = "done")
             => (transport[connection].st = "closed" /\ restart_task' = restart_task)]_vars

\* the receive task ended while the application's stop() awaited it, after
\* stop() closed the transport of a started session, and no restart() was
\* ever spawned
C22_Witness ==
    /\ stop_pc = "await_recv"
    /\ stop_from = "app"
    /\ recv_task = "done"
    /\ transport[connection] = [st |-> "closed", closes |-> 1]
    /\ restart_task.pc = "none"
    /\ ~is_connected
    /\ start_pc = "done"

\* the msg ids the data packets still in the inbound queue answer
QueuedAnswers ==
    UNION {{AnswerTo(recv_queue[i].msgs[j].body) : j \in 1..Len(recv_queue[i].msgs)} :
              i \in {k \in 1..Len(recv_queue) : recv_queue[k].kind = "data"}}

\* C23: a slot whose event stop() fired without a value (its caller gets the
\* TimeoutError) is never the slot of a response that the receive task
\* enqueued and that still sits in the inbound queue.
C23_QueuedResponseStored ==
    \A m \in DOMAIN results :
        results[m] = [value |-> None, event |-> TRUE] => m \notin QueuedAnswers

\* C24: the step in which stop() returns leaves both cancellation events
\* clear, and they stay clear while no stop() is under way (unless a stop()
\* raised); the ping task and the salt task end on their events only while
\* a stop() is under way.
C24_EventsCleared ==
    [][/\ (stop_pc = "await_worker" /\ stop_pc' = "idle")
            => (~ping_task_event' /\ ~next_salt_task_event')
       /\ (stop_pc' = "idle" /\ app'.pc # "failed")
            => (~ping_task_event' /\ ~next_salt_task_event')
       /\ (ping_task = "run" /\ ping_task' # "run") => stop_pc = "await_ping"
       /\ (next_salt_task = "wait" /\ next_salt_task' = "done" /\ transport' = transport)
            => stop_pc \in {"await_ping", "await_salt"}]_vars

\* a second start(), made after a stop() returned, has set is_connected and
\* its ping task and salt task are running
C24_Witness ==
    /\ connection = 2
    /\ transport[1].closes >= 1
    /\ stop_pc = "idle"
    /\ is_connected
    /\ ping_task = "run"
    /\ next_salt_task = "wait"
    /\ ~ping_task_event
    /\ ~next_salt_task_event

\* C25: a caller's _send begins (its wait for the response, or the error of
\* its write or of pack) only in a step taken from the wait for
\* is_connected, which every attempt and every retry passes through; that
\* step runs _send (a msg id is drawn) whether is_connected is set or the
\* wait ran to WAIT_TIMEOUT, and ends in the wait for the response or in an
\* error of _send, never in the timeout of the wait for is_connected.
C25_WaitThenSend ==
    [][\A c \in Callers :
          /\ (calls'[c].attempts # calls[c].attempts /\ calls'[c].attempts # 0) =>
                /\ calls[c].pc = "wait_conn"
                /\ calls'[c].attempts = calls[c].attempts + 1
                /\ calls'[c].waited = ~is_connected
                /\ next_id' = next_id + 1
                /\ \/ calls'[c].pc = "wait" /\ calls'[c].msg_id = next_id'
                   \/ /\ calls'[c].pc \in {"sleep", "raised"}
                      /\ calls'[c].out \in {OSError, AttributeError}
          /\ (calls[c].pc # "wait" /\ calls'[c].pc = "wait") =>
                (calls[c].pc = "wait_conn" /\ calls'[c].attempts = calls[c].attempts + 1)
          /\ (calls[c].pc = "sleep" /\ calls'[c].pc # "sleep") =>
                calls'[c].pc = "wait_conn"]_vars

\* the second attempt of a send() went on to _send after the wait for
\* is_connected ran to WAIT_TIMEOUT, and now waits for its response
C25_Witness ==
    \E c \in Callers :
       /\ calls[c].attempts = 2
       /\ calls[c].waited
       /\ calls[c].pc = "wait"
       /\ ~is_connected
====
